---- MODULE Spec2Model ----
(***************************************************************************)
(* Model of the multi-provider comparison tool (Use-case-Mapping):         *)
(* ProviderFactory (provider_factory.py), the three providers              *)
(* (openai_provider.py, anthropic_provider.py, huggingface_provider.py)    *)
(* and the two orchestrating coroutines of main.py, single_model_query     *)
(* and compare_all_models.                                                 *)
(***************************************************************************)
EXTENDS Integers, Sequences, FiniteSets, TLC

\* ------------------------------------------------------------------ bounds
\* Largest number of provider instances the direct get_provider calls on
\* one factory construct (the guard of GetProvider).
MaxInst == 3
\* Largest value of the wall clock (time.time()), in ticks.
MaxClock == 1

\* ------------------------------------------------------------- vocabulary
None == "None"

\* The vendors the factory supports (provider_factory.py:37-44).
Vendors == {"openai", "anthropic", "huggingface"}

\* Names a caller may hand to get_provider: the supported names, a
\* mixed-case spelling and an unsupported one.
Names == Vendors \cup {"OpenAI", "cohere"}

\* str.lower() on the names above.
Lower(name) == IF name = "OpenAI" THEN "openai" ELSE name

\* Values of an API key in the configuration or the environment: absent,
\* empty, whitespace-only, non-blank.
KeyVals == {None, "", " ", "sk-key"}

\* Python truthiness of an optional string.
Truthy(s) == s # None /\ s # ""

\* Python's  a or b  on optional strings.
PyOr(a, b) == IF Truthy(a) THEN a ELSE b

\* compare_all_models' two hard-coded lists.
providers == <<"openai", "anthropic", "huggingface">>
model_types == <<"base", "instruct", "fine-tuned">>

ModelTypes == {"base", "instruct", "fine-tuned"}

\* Values of args.model in single-query mode: not given, empty, a name.
ModelArgs == {None, "", "my-model"}

\* The query text of a run and the text a vendor answers with.
Query == "Explain X"
Answer == "Y"

\* len(text.split()) on the texts of the model.
WordCount(text) == IF text = Query THEN 2 ELSE IF text = Answer THEN 1 ELSE 0

\* Token quantities are kept in tenths of a token, so that the float
\* len(text.split()) * 1.3 of the fallback estimate is exact.
Tok(n) == n * 10

VARIABLES
  config,          \* ProviderFactory.config: the API key of each vendor
  env,             \* os.environ: the API key variable of each vendor
  self_providers,  \* ProviderFactory._providers: vendor name -> instance
  nextId,          \* identities handed to constructed provider instances
  lastGet,         \* the most recent get_provider call and how it ended
  failedGets,      \* supported vendors for which get_provider has raised
  firstReturned,   \* name -> identity get_provider returned for it first (0: none yet)
  now,             \* wall clock
  mode,            \* which coroutine of main.py runs: idle, single, compare
  pc,              \* its position
  args,            \* single-query arguments (provider, model_type, model)
  i,               \* compare_all_models: index into providers
  j,               \* compare_all_models: index into model_types
  provider,        \* the provider instance the coroutine holds
  call,            \* the current generate_response invocation
  ret,             \* the record generate_response returned last
  results,         \* compare_all_models: the batch
  console,         \* messages printed by the except handlers
  netCalls,        \* vendor network calls issued in this run
  outcome,         \* how the coroutine ended: none, running, returned, raised
  util             \* the latest call of a query or utility function: its
                   \* name, its arguments and what it returned

vars == <<config, env, self_providers, nextId, lastGet, failedGets, firstReturned,
          now, mode, pc, args, i, j, provider, call, ret, results, console,
          netCalls, outcome, util>>

factoryVars == <<self_providers, nextId, lastGet, failedGets, firstReturned>>
runVars == <<mode, pc, args, i, j, provider, call, ret, results, console,
             netCalls, outcome>>

\* ------------------------------------------------------- provider objects
\* A provider instance: its identity, its class, and the fields __init__
\* sets (api_key; client is None unless api_key is truthy).
NoProvider == [id |-> 0, vendor |-> None, api_key |-> None, client |-> FALSE]

\* config.get('<vendor>_api_key') or os.getenv('<VENDOR>_API_KEY')
ApiKey(cfg, environ, vendor) == PyOr(cfg[vendor], environ[vendor])

\* OpenAIProvider/AnthropicProvider/HuggingFaceProvider.__init__
NewProvider(cfg, environ, vendor, id) ==
  LET key == ApiKey(cfg, environ, vendor)
  IN [id |-> id, vendor |-> vendor, api_key |-> key, client |-> Truthy(key)]

\* _create_*_provider without the credential check: the provider is
\* constructed whatever the key.
CreateNeverRaises(cfg, environ, vendor) == FALSE

\* _create_openai_provider / _create_anthropic_provider /
\* _create_huggingface_provider: raise ValueError unless the key is truthy.
CreateRaises(cfg, environ, vendor) == ~Truthy(ApiKey(cfg, environ, vendor))

\* get_provider with a slip: the provider is constructed and cached before
\* the credential check, so a failed construction stays in the cache.
get_provider_caches_failure(cache, cfg, environ, name, id) ==
  IF name \in Vendors /\ cache[name] # NoProvider
    THEN [raised |-> FALSE, inst |-> cache[name], cache |-> cache, built |-> FALSE]
  ELSE LET lname == Lower(name)
       IN IF lname \notin Vendors
            THEN [raised |-> TRUE, inst |-> NoProvider, cache |-> cache, built |-> FALSE]
          ELSE LET p == NewProvider(cfg, environ, lname, id)
               IN IF CreateRaises(cfg, environ, lname)
                    THEN [raised |-> TRUE, inst |-> NoProvider,
                          cache |-> [cache EXCEPT ![lname] = p], built |-> TRUE]
                  ELSE [raised |-> FALSE, inst |-> p,
                        cache |-> [cache EXCEPT ![lname] = p], built |-> TRUE]

\* ProviderFactory.get_provider: the value of the call, as a record
\*   raised   whether it raised
\*   inst     the instance returned (NoProvider when it raised)
\*   cache    self._providers afterwards
\*   built    whether a provider was constructed
get_provider(cache, cfg, environ, name, id) ==
  IF name \in Vendors /\ cache[name] # NoProvider
    THEN [raised |-> FALSE, inst |-> cache[name], cache |-> cache, built |-> FALSE]
  ELSE LET lname == Lower(name)
       IN IF lname \notin Vendors \/ CreateRaises(cfg, environ, lname)
            THEN [raised |-> TRUE, inst |-> NoProvider, cache |-> cache, built |-> FALSE]
          ELSE LET p == NewProvider(cfg, environ, lname, id)
               IN [raised |-> FALSE, inst |-> p,
                   cache |-> [cache EXCEPT ![lname] = p], built |-> TRUE]

\* ------------------------------------------------------ provider tables
\* get_default_model of each provider: its defaults table (None where the
\* table holds None).
get_default_model(vendor, model_type) ==
  CASE vendor = "openai" ->
         (CASE model_type = "base" -> "gpt-3.5-turbo-instruct"
            [] model_type = "instruct" -> "gpt-3.5-turbo"
            [] model_type = "fine-tuned" -> "gpt-3.5-turbo-ft"
            [] OTHER -> None)
    [] vendor = "anthropic" ->
         (CASE model_type = "instruct" -> "claude-3-sonnet-20240229"
            [] OTHER -> None)
    [] vendor = "huggingface" ->
         (CASE model_type = "base" -> "meta-llama/Llama-2-7b-hf"
            [] model_type = "instruct" -> "meta-llama/Llama-2-7b-chat-hf"
            [] model_type = "fine-tuned" -> "codellama/CodeLlama-7b-Python-hf"
            [] OTHER -> None)
    [] OTHER -> None

\* The `windows` dict of get_context_window of each provider.
windows(vendor) ==
  CASE vendor = "openai" ->
         ("gpt-3.5-turbo" :> 4096 @@ "gpt-3.5-turbo-16k" :> 16384
          @@ "gpt-4" :> 8192 @@ "gpt-4-32k" :> 32768
          @@ "gpt-4-turbo" :> 128000 @@ "gpt-4-turbo-preview" :> 128000
          @@ "gpt-4o" :> 128000 @@ "gpt-4o-mini" :> 128000
          @@ "gpt-3.5-turbo-instruct" :> 4096 @@ "text-davinci-003" :> 4097)
    [] vendor = "anthropic" ->
         ("claude-3-haiku-20240307" :> 200000 @@ "claude-3-sonnet-20240229" :> 200000
          @@ "claude-3-opus-20240229" :> 200000
          @@ "claude-3-5-sonnet-20240620" :> 200000
          @@ "claude-2.1" :> 200000 @@ "claude-2.0" :> 100000
          @@ "claude-instant-1.2" :> 100000)
    [] vendor = "huggingface" ->
         ("meta-llama/Llama-2-7b-hf" :> 4096 @@ "meta-llama/Llama-2-7b-chat-hf" :> 4096
          @@ "meta-llama/Llama-2-13b-hf" :> 4096
          @@ "meta-llama/Llama-2-13b-chat-hf" :> 4096
          @@ "mistralai/Mistral-7B-v0.1" :> 32768
          @@ "mistralai/Mistral-7B-Instruct-v0.1" :> 32768
          @@ "codellama/CodeLlama-7b-Python-hf" :> 16384
          @@ "codellama/CodeLlama-7b-Instruct-hf" :> 16384
          @@ "HuggingFaceH4/zephyr-7b-beta" :> 32768
          @@ "openchat/openchat-3.5-1210" :> 8192)

\* get_context_window where AnthropicProvider, like the two others, falls
\* back on the 4096 of BaseProvider.get_context_window for a name its
\* table lacks.
get_context_window_base_default(vendor, model_name) ==
  IF model_name \in DOMAIN windows(vendor)
    THEN windows(vendor)[model_name]
  ELSE 4096

\* get_context_window of each provider: windows.get(model_name, default),
\* the default being 4096 for OpenAI and Hugging Face and 200000 for
\* Anthropic.
get_context_window(vendor, model_name) ==
  IF model_name \in DOMAIN windows(vendor)
    THEN windows(vendor)[model_name]
  ELSE IF vendor = "anthropic" THEN 200000 ELSE 4096

\* ------------------------------------------------------- vendor replies
\* What the awaited vendor call can do: answer, raise (network,
\* authentication or vendor error), time out, or - for the HTTP call of
\* the Hugging Face provider - answer with a status other than 200.
Failures == {"error", "timeout", "http_error"}

Replies(vendor) ==
  IF vendor = "huggingface" THEN {"ok", "error", "timeout", "http_error"}
  ELSE {"ok", "error", "timeout"}

\* str(e) of the exception the except clause of generate_response sees.
FailureText(reply) ==
  CASE reply = "error" -> "Connection error."
    [] reply = "timeout" -> "Request timed out."
    [] reply = "http_error" -> "API error: 503 - unavailable"
    [] OTHER -> None

\* Bounds on the vendor input: the prompt and completion token counts in
\* the usage block of a successful OpenAI / Anthropic reply.
PromptTokens == 3
CompletionTokens == 5

\* --------------------------------------------------------------- records
ZeroUsage == [input_tokens |-> 0, output_tokens |-> 0, total_tokens |-> 0]

NoRecord == [provider |-> None, model_name |-> None, model_type |-> None,
             response |-> None, token_usage |-> ZeroUsage, response_time |-> 0,
             context_window |-> 0, error |-> None]

\* HuggingFaceProvider.count_tokens without a tokenizer library:
\* len(text.split()) * 1.3, in tenths of a token.
hf_count_tokens(text) == WordCount(text) * 13

\* The token_usage dict each provider builds on success.
SuccessUsage(vendor) ==
  CASE vendor = "openai" ->
         [input_tokens |-> Tok(PromptTokens), output_tokens |-> Tok(CompletionTokens),
          total_tokens |-> Tok(PromptTokens + CompletionTokens)]
    [] vendor = "anthropic" ->
         [input_tokens |-> Tok(PromptTokens), output_tokens |-> Tok(CompletionTokens),
          total_tokens |-> Tok(PromptTokens) + Tok(CompletionTokens)]
    [] OTHER ->
         [input_tokens |-> hf_count_tokens(Query), output_tokens |-> hf_count_tokens(Answer),
          total_tokens |-> hf_count_tokens(Query) + hf_count_tokens(Answer)]

\* format_response with a slip: the record of a successful call carries an
\* 'error' key, with an empty text.
format_response_with_error(vendor, response_text, model_name, model_type, token_usage, response_time) ==
  [provider |-> vendor, model_name |-> model_name, model_type |-> model_type,
   response |-> response_text, token_usage |-> token_usage,
   response_time |-> response_time,
   context_window |-> get_context_window(vendor, model_name), error |-> ""]

\* BaseProvider.format_response: the record of a successful call (no
\* 'error' key).
format_response(vendor, response_text, model_name, model_type, token_usage, response_time) ==
  [provider |-> vendor, model_name |-> model_name, model_type |-> model_type,
   response |-> response_text, token_usage |-> token_usage,
   response_time |-> response_time,
   context_window |-> get_context_window(vendor, model_name), error |-> None]

\* error_response with a slip: the elapsed time is not measured.
error_response_untimed(vendor, model_name, model_type, text, start_time, clock) ==
  [provider |-> vendor, model_name |-> model_name, model_type |-> model_type,
   response |-> "Error", token_usage |-> ZeroUsage,
   response_time |-> 0, context_window |-> 0, error |-> text]

\* The dict the except clause of generate_response returns.
error_response(vendor, model_name, model_type, text, start_time, clock) ==
  [provider |-> vendor, model_name |-> model_name, model_type |-> model_type,
   response |-> "Error", token_usage |-> ZeroUsage,
   response_time |-> clock - start_time, context_window |-> 0, error |-> text]

\* generate_begin with a slip: the model type's default wins over the
\* explicit model name.
generate_begin_default_first(p, model_type, model_name) ==
  IF (p.vendor = "huggingface" /\ ~Truthy(p.api_key))
     \/ (p.vendor # "huggingface" /\ ~p.client)
    THEN [raised |-> TRUE, error |-> "client not initialized", model |-> None]
  ELSE LET d == get_default_model(p.vendor, model_type)
           m == IF Truthy(d) THEN d ELSE model_name
       IN IF ~Truthy(m)
            THEN [raised |-> TRUE, error |-> "No available model for type", model |-> None]
          ELSE [raised |-> FALSE, error |-> None, model |-> m]

\* generate_begin with a slip: the check of the resolved model name is
\* missing, so the request goes out without a model.
generate_begin_unchecked(p, model_type, model_name) ==
  IF (p.vendor = "huggingface" /\ ~Truthy(p.api_key))
     \/ (p.vendor # "huggingface" /\ ~p.client)
    THEN [raised |-> TRUE, error |-> "client not initialized", model |-> None]
  ELSE [raised |-> FALSE, error |-> None,
        model |-> IF Truthy(model_name) THEN model_name
                  ELSE get_default_model(p.vendor, model_type)]

\* ---------------------------------------------------- generate_response
\* The part of generate_response before the vendor call (the client /
\* api_key check and the model selection): whether it raises, the text of
\* the ValueError, and the model name it resolved.
generate_begin(p, model_type, model_name) ==
  IF (p.vendor = "huggingface" /\ ~Truthy(p.api_key))
     \/ (p.vendor # "huggingface" /\ ~p.client)
    THEN [raised |-> TRUE, error |-> "client not initialized", model |-> None]
  ELSE LET m == IF Truthy(model_name) THEN model_name
                ELSE get_default_model(p.vendor, model_type)
       IN IF ~Truthy(m)
            THEN [raised |-> TRUE, error |-> "No available model for type", model |-> None]
          ELSE [raised |-> FALSE, error |-> None, model |-> m]

\* The part of generate_response after the awaited vendor call: the record
\* it returns for a reply, with start_time taken before the call and the
\* clock read when the call ended.
generate_end(c, reply, clock) ==
  IF reply = "ok"
    THEN format_response(c.vendor, Answer, c.model, c.model_type,
                         SuccessUsage(c.vendor), clock - c.start)
  ELSE error_response(c.vendor, c.model, c.model_type, FailureText(reply),
                      c.start, clock)

\* One generate_response invocation: who was asked for what, when the
\* vendor call was issued and ended, and how the invocation ended.
NoCall == [status |-> "none", vendor |-> None, model_type |-> None,
           explicit |-> None, model |-> None, start |-> 0, finish |-> 0,
           reply |-> None]

RaisedCall(p, model_type, model_name) ==
  [status |-> "raised", vendor |-> p.vendor, model_type |-> model_type,
   explicit |-> model_name, model |-> None, start |-> 0, finish |-> 0,
   reply |-> None]

IssuedCall(p, model_type, model_name, m, clock) ==
  [status |-> "inflight", vendor |-> p.vendor, model_type |-> model_type,
   explicit |-> model_name, model |-> m, start |-> clock, finish |-> 0,
   reply |-> None]

\* The vendor request of an invocation, as the network sees it.
Request(c) == [vendor |-> c.vendor, model |-> c.model, model_type |-> c.model_type,
               explicit |-> c.explicit]

\* No query or utility function has been called yet.
NoUtil == [op |-> "none"]

\* The except clause of generate_response with a retry: a failed or timed
\* out vendor call is issued once more.
calls_after_reply_retry(calls, c, reply) ==
  IF reply \in Failures THEN Append(calls, Request(c)) ELSE calls

\* generate_response with a slip: a failed vendor call makes the provider
\* drop its client.
instance_after_call_drops_client(p, how) ==
  IF how \in Failures THEN [p EXCEPT !.client = FALSE] ELSE p

\* The provider instance after a generate_response call that ended in a
\* way ("raised" before the vendor call, or a vendor reply): the method
\* assigns no attribute of self.
instance_after_call(p, how) == p

\* generate_response handling a reply after the request has been sent a
\* second time without waiting.
calls_after_reply_resent(calls, c, reply) == Append(calls, Request(c))

\* The vendor calls of the run once the awaited call of the invocation c
\* has ended with a reply: the success path and the except clause of
\* generate_response issue no further request.
calls_after_reply(calls, c, reply) == calls

NoArgs == [provider |-> None, model_type |-> None, model |-> None]

EmptyCache == [v \in Vendors |-> NoProvider]

\* ------------------------------------------------------------ the factory
\* The effect of one get_provider call, with result r, on the factory and
\* on the record kept of its calls.
FactoryUpdate(name, r) ==
  /\ self_providers' = r.cache
  /\ nextId' = IF r.built THEN nextId + 1 ELSE nextId
  /\ lastGet' = [name |-> name, raised |-> r.raised, inst |-> r.inst,
                 built |-> r.built]
  /\ failedGets' = IF r.raised /\ Lower(name) \in Vendors
                     THEN failedGets \cup {Lower(name)} ELSE failedGets
  /\ firstReturned' = IF r.raised \/ firstReturned[name] # 0 THEN firstReturned
                      ELSE [firstReturned EXCEPT ![name] = r.inst.id]

\* A caller invokes factory.get_provider(name) directly.
GetProvider(name) ==
  /\ mode = "idle"
  /\ LET r == get_provider(self_providers, config, env, name, nextId)
     IN /\ r.built => nextId <= MaxInst
        /\ FactoryUpdate(name, r)
  /\ UNCHANGED <<config, env, now>>
  /\ UNCHANGED runVars
  /\ UNCHANGED util

\* The environment gains the API key variable of a vendor.
SetEnv(vendor, key) ==
  /\ mode = "idle"
  /\ env[vendor] = None
  /\ env' = [env EXCEPT ![vendor] = key]
  /\ UNCHANGED <<config, now>>
  /\ UNCHANGED factoryVars
  /\ UNCHANGED runVars
  /\ UNCHANGED util

\* --------------------------------------------------------- orchestration
\* Where compare_all_models goes after the pair (a, b): the next model
\* type, else the next vendor, else the display of the batch and the end.
AfterVendor(a) ==
  IF a < Len(providers) THEN [i |-> a + 1, j |-> 1, pc |-> "get"]
  ELSE [i |-> a, j |-> 1, pc |-> "done"]

\* AfterType with a slip: the loops are left after the first pair whose
\* call returned.
AfterTypeReturn(a, b) == [i |-> a, j |-> b, pc |-> "done"]

AfterType(a, b) ==
  IF b < Len(model_types) THEN [i |-> a, j |-> b + 1, pc |-> "query"]
  ELSE AfterVendor(a)

Goto(pos) ==
  /\ i' = pos.i
  /\ j' = pos.j
  /\ pc' = pos.pc
  /\ outcome' = IF pos.pc = "done" THEN "returned" ELSE outcome

\* append_result with a slip: only successful records are kept.
append_result_successes_only(batch, response) ==
  IF response.error # None THEN batch ELSE Append(batch, response)

\* append_result with a slip: the record is put at the front.
append_result_front(batch, response) == <<response>> \o batch

\* results.append(response)
append_result(batch, response) == Append(batch, response)

\* single_except with a slip: the exception is raised again.
single_except_reraise(e) ==
  /\ console' = console
  /\ pc' = "done"
  /\ outcome' = "raised"

\* except Exception of single_model_query (main.py:139-140).
single_except(e) ==
  /\ console' = Append(console, [kind |-> "single_error", vendor |-> args.provider,
                                 model_type |-> args.model_type, text |-> e])
  /\ pc' = "done"
  /\ outcome' = "returned"

\* compare_except_inner with a slip: the pair is skipped without a word.
compare_except_inner_silent(e) ==
  /\ console' = console
  /\ Goto(AfterType(i, j))

\* The inner except Exception of compare_all_models (main.py:166-167).
compare_except_inner(e) ==
  /\ console' = Append(console, [kind |-> "query_failed", vendor |-> providers[i],
                                 model_type |-> model_types[j], text |-> e])
  /\ Goto(AfterType(i, j))

\* compare_except_outer with a slip: the handler sits outside the loop, so
\* the first unavailable vendor ends the batch.
compare_except_outer_abort(e) ==
  /\ console' = Append(console, [kind |-> "provider_unavailable", vendor |-> providers[i],
                                 model_type |-> None, text |-> e])
  /\ i' = i
  /\ j' = j
  /\ pc' = "done"
  /\ outcome' = "returned"

\* The outer except Exception of compare_all_models (main.py:169-170).
compare_except_outer(e) ==
  /\ console' = Append(console, [kind |-> "provider_unavailable", vendor |-> providers[i],
                                 model_type |-> None, text |-> e])
  /\ Goto(AfterVendor(i))

\* The text of the ValueError get_provider raises for a name.
GetProviderError(name) ==
  IF Lower(name) \in Vendors THEN "API key not found" ELSE "Unsupported provider"

ResetRun ==
  /\ call' = NoCall
  /\ ret' = NoRecord
  /\ results' = <<>>
  /\ console' = <<>>
  /\ netCalls' = <<>>
  /\ provider' = NoProvider
  /\ outcome' = "running"

\* main() enters single_model_query with the parsed arguments.
SingleStart(a) ==
  /\ mode = "idle"
  /\ mode' = "single"
  /\ args' = a
  /\ pc' = "get"
  /\ ResetRun
  /\ UNCHANGED <<config, env, now, i, j>>
  /\ UNCHANGED factoryVars
  /\ UNCHANGED util

\* provider = provider_factory.get_provider(provider_name)
SingleGetProvider ==
  /\ mode = "single" /\ pc = "get"
  /\ LET r == get_provider(self_providers, config, env, args.provider, nextId)
     IN /\ FactoryUpdate(args.provider, r)
        /\ IF r.raised
             THEN /\ single_except(GetProviderError(args.provider))
                  /\ UNCHANGED provider
           ELSE /\ provider' = r.inst
                /\ pc' = "generate"
                /\ UNCHANGED <<console, outcome>>
  /\ UNCHANGED <<config, env, now, mode, args, i, j, call, ret, results, netCalls>>
  /\ UNCHANGED util

\* response = await provider.generate_response(...), up to the await.
SingleGenerate ==
  /\ mode = "single" /\ pc = "generate"
  /\ LET g == generate_begin(provider, args.model_type, args.model)
     IN IF g.raised
          THEN /\ call' = RaisedCall(provider, args.model_type, args.model)
               /\ single_except(g.error)
               /\ UNCHANGED netCalls
               /\ provider' = instance_after_call(provider, "raised")
        ELSE /\ call' = IssuedCall(provider, args.model_type, args.model, g.model, now)
             /\ netCalls' = Append(netCalls, Request(call'))
             /\ pc' = "await"
             /\ UNCHANGED provider
             /\ UNCHANGED <<console, outcome>>
  /\ UNCHANGED <<config, env, now, mode, args, i, j, ret, results>>
  /\ UNCHANGED factoryVars
  /\ UNCHANGED util

\* The vendor call ends; generate_response returns its record and
\* display_single_result prints it.
SingleAwait(reply) ==
  /\ mode = "single" /\ pc = "await"
  /\ reply \in Replies(call.vendor)
  /\ call' = [call EXCEPT !.status = "returned", !.finish = now, !.reply = reply]
  /\ ret' = generate_end(call, reply, now)
  /\ provider' = instance_after_call(provider, reply)
  /\ pc' = "done"
  /\ outcome' = "returned"
  /\ netCalls' = calls_after_reply(netCalls, call, reply)
  /\ UNCHANGED <<config, env, now, mode, args, i, j, results, console>>
  /\ UNCHANGED factoryVars
  /\ UNCHANGED util

\* main() enters compare_all_models.
CompareStart ==
  /\ mode = "idle"
  /\ mode' = "compare"
  /\ args' = NoArgs
  /\ i' = 1
  /\ j' = 1
  /\ pc' = "get"
  /\ ResetRun
  /\ UNCHANGED <<config, env, now>>
  /\ UNCHANGED factoryVars
  /\ UNCHANGED util

\* provider = provider_factory.get_provider(provider_name), in the outer try.
CompareGetProvider ==
  /\ mode = "compare" /\ pc = "get"
  /\ LET r == get_provider(self_providers, config, env, providers[i], nextId)
     IN /\ FactoryUpdate(providers[i], r)
        /\ IF r.raised
             THEN /\ compare_except_outer(GetProviderError(providers[i]))
                  /\ UNCHANGED provider
           ELSE /\ provider' = r.inst
                /\ pc' = "query"
                /\ j' = 1
                /\ UNCHANGED <<console, outcome, i>>
  /\ UNCHANGED <<config, env, now, mode, args, call, ret, results, netCalls>>
  /\ UNCHANGED util

\* response = await provider.generate_response(query, model_type), up to
\* the await, in the inner try.
CompareQuery ==
  /\ mode = "compare" /\ pc = "query"
  /\ LET g == generate_begin(provider, model_types[j], None)
     IN IF g.raised
          THEN /\ call' = RaisedCall(provider, model_types[j], None)
               /\ compare_except_inner(g.error)
               /\ UNCHANGED netCalls
               /\ provider' = instance_after_call(provider, "raised")
        ELSE /\ call' = IssuedCall(provider, model_types[j], None, g.model, now)
             /\ netCalls' = Append(netCalls, Request(call'))
             /\ pc' = "await"
             /\ UNCHANGED provider
             /\ UNCHANGED <<console, outcome, i, j>>
  /\ UNCHANGED <<config, env, now, mode, args, ret, results>>
  /\ UNCHANGED factoryVars
  /\ UNCHANGED util

\* The vendor call ends; the record generate_response returns is appended
\* to results and the loop goes on.
CompareAwait(reply) ==
  /\ mode = "compare" /\ pc = "await"
  /\ reply \in Replies(call.vendor)
  /\ call' = [call EXCEPT !.status = "returned", !.finish = now, !.reply = reply]
  /\ ret' = generate_end(call, reply, now)
  /\ provider' = instance_after_call(provider, reply)
  /\ results' = append_result(results, ret')
  /\ netCalls' = calls_after_reply(netCalls, call, reply)
  /\ Goto(AfterType(i, j))
  /\ UNCHANGED <<config, env, now, mode, args, console>>
  /\ UNCHANGED factoryVars
  /\ UNCHANGED util

\* Time passes while a vendor call is awaited.
Tick ==
  /\ pc = "await"
  /\ now < MaxClock
  /\ now' = now + 1
  /\ UNCHANGED <<config, env>>
  /\ UNCHANGED factoryVars
  /\ UNCHANGED runVars
  /\ UNCHANGED util

\* ---------------------------------------------------------- specifications
InitRun ==
  /\ self_providers = EmptyCache
  /\ nextId = 1
  /\ lastGet = [name |-> None, raised |-> FALSE, inst |-> NoProvider,
                built |-> FALSE]
  /\ failedGets = {}
  /\ firstReturned = [n \in Names |-> 0]
  /\ now = 0
  /\ mode = "idle"
  /\ pc = "done"
  /\ args = NoArgs
  /\ i = 1
  /\ j = 1
  /\ provider = NoProvider
  /\ call = NoCall
  /\ ret = NoRecord
  /\ results = <<>>
  /\ console = <<>>
  /\ netCalls = <<>>
  /\ outcome = "none"

\* main(): a fresh factory over a configuration that holds a key or none
\* for each vendor, handed to one of the two coroutines.
Init ==
  /\ config \in [Vendors -> {None, "sk-key"}]
  /\ env = [v \in Vendors |-> None]
  /\ InitRun
  /\ util = NoUtil

Next ==
  \/ \E a \in [provider : Vendors, model_type : ModelTypes, model : ModelArgs] :
       SingleStart(a)
  \/ SingleGetProvider
  \/ SingleGenerate
  \/ \E reply \in Replies("huggingface") : SingleAwait(reply)
  \/ CompareStart
  \/ CompareGetProvider
  \/ CompareQuery
  \/ \E reply \in Replies("huggingface") : CompareAwait(reply)
  \/ Tick

Spec == Init /\ [][Next]_vars

\* A factory over every kind of key value, with its get_provider called
\* directly while the environment gains keys.
InitFactory ==
  /\ config \in [Vendors -> KeyVals]
  /\ env = [v \in Vendors |-> None]
  /\ InitRun
  /\ util = NoUtil

NextFactory ==
  \/ \E name \in Names : GetProvider(name)
  \/ \E v \in Vendors : SetEnv(v, "sk-key")

SpecFactory == InitFactory /\ [][NextFactory]_vars

\* ------------------------------------------------------ claim vocabulary
Credentialed(v) == Truthy(ApiKey(config, env, v))

HasDefault(v, t) == get_default_model(v, t) # None

NoModelText == "No available model for type"

CompareDone == mode = "compare" /\ pc = "done"

\* The positions of the batch holding a record of the pair (v, t).
RecordsFor(v, t) ==
  {k \in DOMAIN results : results[k].provider = v /\ results[k].model_type = t}

\* The console messages of a kind about the pair (v, t).
Messages(kind, v, t) ==
  {k \in DOMAIN console :
     console[k].kind = kind /\ console[k].vendor = v /\ console[k].model_type = t}

VendorIndex(v) == CHOOSE a \in DOMAIN providers : providers[a] = v
TypeIndex(t) == CHOOSE b \in DOMAIN model_types : model_types[b] = t

\* Whether compare_all_models is past the pair (a, b) of its iteration.
Past(a, b) == pc = "done" \/ i > a \/ (i = a /\ pc # "get" /\ j > b)

\* ------------------------------------------------------------------- C1
\* C1 as stated: when every vendor has credentials, the finished batch of
\* compare_all_models holds one record per (vendor, model type) pair of the
\* cartesian product, |providers| x |model_types| = 9 for the built-in
\* selection, each with a non-null model_name.
C1_OneRecordPerPair ==
  (CompareDone /\ \A v \in Vendors : Credentialed(v)) =>
    /\ Len(results) = Len(providers) * Len(model_types)
    /\ \A a \in DOMAIN providers : \A b \in DOMAIN model_types :
         Cardinality(RecordsFor(providers[a], model_types[b])) = 1
    /\ \A k \in DOMAIN results : results[k].model_name # None

\* C1 amended: when every vendor has credentials, the finished batch holds
\* exactly one record for each pair whose vendor has a default model for
\* the model type and none for the other pairs, 7 records for the built-in
\* 3 x 3 selection, each with a non-null model_name, whatever each vendor
\* call did.
C1_OneRecordPerResolvablePair ==
  (CompareDone /\ \A v \in Vendors : Credentialed(v)) =>
    /\ Len(results) = 7
    /\ \A a \in DOMAIN providers : \A b \in DOMAIN model_types :
         Cardinality(RecordsFor(providers[a], model_types[b])) =
           IF HasDefault(providers[a], model_types[b]) THEN 1 ELSE 0
    /\ \A k \in DOMAIN results : results[k].model_name # None

\* A finished batch over fully credentialed vendors in which one vendor
\* call failed and another succeeded.
C1_Witness ==
  /\ CompareDone
  /\ \A v \in Vendors : Credentialed(v)
  /\ \E k \in DOMAIN results : results[k].error # None
  /\ \E k \in DOMAIN results : results[k].error = None

\* ------------------------------------------------------------------- C2
\* C2: the records of the batch are in cartesian-product iteration order,
\* vendor outer and model type inner: of any two records, the one whose
\* (vendor index, model-type index) is lexicographically smaller comes
\* first, whichever pairs succeeded, failed or were skipped.
C2_BatchOrder ==
  mode = "compare" =>
    \A k1 \in DOMAIN results : \A k2 \in DOMAIN results :
      k1 < k2 =>
        LET a1 == VendorIndex(results[k1].provider)
            a2 == VendorIndex(results[k2].provider)
            b1 == TypeIndex(results[k1].model_type)
            b2 == TypeIndex(results[k2].model_type)
        IN a1 < a2 \/ (a1 = a2 /\ b1 < b2)

\* A finished batch with a skipped vendor between two recorded ones, a
\* failed call and a successful one.
C2_Witness ==
  /\ CompareDone
  /\ ~Credentialed("anthropic")
  /\ \E k1 \in DOMAIN results : \E k2 \in DOMAIN results :
       /\ results[k1].provider = "openai" /\ results[k1].error # None
       /\ results[k2].provider = "huggingface" /\ results[k2].error = None

C4_NeverSkipped ==
  \A k \in DOMAIN console :
    console[k].text = NoModelText => console[k].kind # "query_failed"

\* C4 amended: a pair with no default model and no explicit name makes
\* generate_response raise and yields no record and no vendor call; in
\* single-query mode the query ends there with the error printed, in
\* compare-all mode the pair is skipped with a printed warning and the
\* later pairs are still attempted; it is never dropped without a message.
C4_NoModelReported ==
  /\ call.status = "raised" =>
       /\ Messages(IF mode = "single" THEN "single_error" ELSE "query_failed",
                   call.vendor, call.model_type) # {}
       /\ \A k \in Messages(IF mode = "single" THEN "single_error" ELSE "query_failed",
                            call.vendor, call.model_type) :
            console[k].text = NoModelText
       /\ mode = "single" => pc = "done" /\ outcome = "returned" /\ ret = NoRecord
  /\ mode = "compare" =>
       \A a \in DOMAIN providers : \A b \in DOMAIN model_types :
         (Credentialed(providers[a]) /\ ~HasDefault(providers[a], model_types[b])
            /\ Past(a, b)) =>
           /\ Cardinality(Messages("query_failed", providers[a], model_types[b])) = 1
           /\ RecordsFor(providers[a], model_types[b]) = {}
           /\ \A k \in DOMAIN netCalls :
                ~(netCalls[k].vendor = providers[a]
                  /\ netCalls[k].model_type = model_types[b])

\* A finished compare-all run that warned about Anthropic's 'base' pair and
\* went on to record Anthropic's 'instruct' pair and a Hugging Face pair.
C4_Witness ==
  /\ CompareDone
  /\ Messages("query_failed", "anthropic", "base") # {}
  /\ RecordsFor("anthropic", "instruct") # {}
  /\ RecordsFor("huggingface", "base") # {}

\* ------------------------------------------------------------------- C5
\* C5: no exception of the factory or of a provider leaves
\* single_model_query or compare_all_models: whatever credentials, default
\* models and vendor replies, the coroutine returns normally, and each
\* failure is in a returned record or in a console message.
C5_NoEscape ==
  /\ outcome # "raised"
  /\ (mode # "idle" /\ pc = "done") => outcome = "returned"
  /\ (mode # "idle" /\ lastGet.raised) =>
       \E k \in DOMAIN console :
         console[k].vendor = lastGet.name
         /\ console[k].kind \in {"single_error", "provider_unavailable"}
  /\ call.status = "raised" =>
       \E k \in DOMAIN console :
         console[k].vendor = call.vendor /\ console[k].model_type = call.model_type
         /\ console[k].kind \in {"single_error", "query_failed"}
  /\ (call.status = "returned" /\ call.reply \in Failures) => ret.error # None
  /\ (mode = "single" /\ pc = "done") => (ret # NoRecord) # (console # <<>>)

\* A finished compare-all run that met all three failures: a vendor
\* without credentials, a pair without a default model, a failed call.
C5_Witness ==
  /\ CompareDone
  /\ outcome = "returned"
  /\ \E k \in DOMAIN console : console[k].kind = "provider_unavailable"
  /\ \E k \in DOMAIN console : console[k].kind = "query_failed"
  /\ \E k \in DOMAIN results : results[k].error # None

\* ------------------------------------------------------------------- C6
\* C6: when the vendor call of generate_response fails (an exception, a
\* timeout, a status other than 200), generate_response returns a record
\* whose error is the failure's text, whose three token counts are 0 and
\* whose response_time is the time from the start of the call to the
\* failure; it does not raise.
C6_FailureRecord ==
  (call.reply \in Failures) =>
    /\ call.status = "returned"
    /\ ret.error = FailureText(call.reply)
    /\ ret.error # None
    /\ ret.token_usage.input_tokens = 0
    /\ ret.token_usage.output_tokens = 0
    /\ ret.token_usage.total_tokens = 0
    /\ ret.response_time = call.finish - call.start
    /\ ret.provider = call.vendor

\* A Hugging Face call that ended with a status other than 200 after time
\* had passed.
C6_Witness ==
  /\ call.status = "returned"
  /\ call.vendor = "huggingface"
  /\ call.reply = "http_error"
  /\ call.finish > call.start
  /\ ret.response_time > 0

\* ------------------------------------------------------------------- C7
\* C7: the model_name of the record generate_response returns is the
\* explicit model name when one is given, and otherwise the vendor's
\* default model for the model type.
C7_ModelName ==
  /\ call.status = "returned" =>
       ret.model_name = IF Truthy(call.explicit) THEN call.explicit
                        ELSE get_default_model(call.vendor, call.model_type)
  /\ \A k \in DOMAIN results :
       results[k].model_name =
         get_default_model(results[k].provider, results[k].model_type)

\* A single query that named a model for a pair that has a default, and a
\* record bearing the given name.
C7_Witness ==
  /\ mode = "single" /\ pc = "done"
  /\ call.status = "returned"
  /\ call.explicit = "my-model"
  /\ HasDefault(call.vendor, call.model_type)
  /\ ret.model_name = "my-model"

\* ------------------------------------------------------------------- C8
\* C8: when no explicit model name is given and the vendor has no default
\* for the model type, generate_response fails with the no-model error
\* and no vendor call is issued for the request.
C8_NoCallWithoutModel ==
  /\ \A k \in DOMAIN netCalls :
       /\ netCalls[k].model # None
       /\ Truthy(netCalls[k].explicit)
            \/ HasDefault(netCalls[k].vendor, netCalls[k].model_type)
  /\ (call.status # "none" /\ ~Truthy(call.explicit)
        /\ ~HasDefault(call.vendor, call.model_type)) =>
       /\ call.status = "raised"
       /\ \E k \in DOMAIN console : console[k].text = NoModelText
       /\ \A k \in DOMAIN netCalls :
            ~(netCalls[k].vendor = call.vendor /\ netCalls[k].model_type = call.model_type)

\* A single Anthropic 'fine-tuned' query without a model name that ended
\* with no vendor call issued.
C8_Witness ==
  /\ mode = "single" /\ pc = "done"
  /\ call.status = "raised"
  /\ call.vendor = "anthropic" /\ call.model_type = "fine-tuned"
  /\ netCalls = <<>>

\* ------------------------------------------------------------------- C9
\* C9: get_provider is memoized per vendor name: every successful call
\* with a name returns the instance the first successful call with that
\* name returned.
C9_Memoized ==
  (lastGet.name # None /\ ~lastGet.raised) =>
    lastGet.inst.id = firstReturned[lastGet.name]

\* ------------------------------------------------------------------ C10
\* C10: a get_provider call for an unsupported name, or for a vendor whose
\* credentials are absent, raises, returns no provider and leaves the
\* cache as it was; a call for a supported vendor whose credentials are
\* present returns a provider of that vendor, constructing it when the
\* cache holds none - also after earlier calls for the vendor raised.
C10_FailFast ==
  [][\A n \in Names :
       GetProvider(n) =>
         IF Lower(n) \notin Vendors \/ ~Credentialed(Lower(n))
           THEN /\ lastGet'.raised
                /\ lastGet'.inst = NoProvider
                /\ self_providers' = self_providers
         ELSE /\ ~lastGet'.raised
              /\ lastGet'.inst.vendor = Lower(n)
              /\ lastGet'.inst.client
              /\ self_providers'[Lower(n)] = lastGet'.inst
              /\ self_providers[Lower(n)] = NoProvider => lastGet'.built]_vars

\* A provider constructed by a get_provider call for a vendor whose key
\* came from the environment, after an earlier call for it had raised.
C10_Witness ==
  /\ lastGet.built /\ ~lastGet.raised
  /\ Lower(lastGet.name) \in failedGets
  /\ ~Truthy(config[Lower(lastGet.name)])
  /\ self_providers[Lower(lastGet.name)] = lastGet.inst

\* ========================================================================
\* Factory queries
\* ========================================================================
\* Whether a value occurs in a list.
InList(x, list) == \E k \in 1..Len(list) : list[k] = x

\* get_available_providers looking at the configuration alone.
get_available_providers_config_only(cfg, environ) ==
  LET a == IF Truthy(cfg["openai"]) THEN <<"openai">> ELSE <<>>
      b == IF Truthy(cfg["anthropic"]) THEN Append(a, "anthropic") ELSE a
  IN IF Truthy(cfg["huggingface"]) THEN Append(b, "huggingface") ELSE b

\* ProviderFactory.get_available_providers: one `if config.get(key) or
\* os.getenv(KEY)` per vendor, appending its name, in the order openai,
\* anthropic, huggingface.
get_available_providers(cfg, environ) ==
  LET a == IF Truthy(PyOr(cfg["openai"], environ["openai"]))
             THEN <<"openai">> ELSE <<>>
      b == IF Truthy(PyOr(cfg["anthropic"], environ["anthropic"]))
             THEN Append(a, "anthropic") ELSE a
  IN IF Truthy(PyOr(cfg["huggingface"], environ["huggingface"]))
       THEN Append(b, "huggingface") ELSE b

\* A caller invokes factory.get_available_providers().
GetAvailableProviders ==
  /\ mode = "idle"
  /\ util' = [op |-> "get_available_providers",
              result |-> get_available_providers(config, env)]
  /\ UNCHANGED <<config, env, now>>
  /\ UNCHANGED factoryVars
  /\ UNCHANGED runVars

\* str.strip() on the key values of the model.
strip(s) == IF s = " " THEN "" ELSE s

\* validate_api_key of the three providers:
\* self.api_key is not None and len(self.api_key.strip()) > 0
validate_api_key(p) == p.api_key # None /\ strip(p.api_key) # ""

\* validate_provider_config without its try/except: what get_provider
\* raises reaches the caller.
validate_provider_config_uncaught(cache, cfg, environ, name, id) ==
  LET r == get_provider(cache, cfg, environ, name, id)
  IN [raised |-> r.raised,
      value |-> IF r.raised THEN FALSE ELSE validate_api_key(r.inst),
      get |-> r]

\* ProviderFactory.validate_provider_config: get_provider, then the
\* provider's validate_api_key, and False for any exception. The value of
\* the call, as a record
\*   raised   whether it raised
\*   value    the boolean returned
\*   get      what its get_provider call did
validate_provider_config(cache, cfg, environ, name, id) ==
  LET r == get_provider(cache, cfg, environ, name, id)
  IN [raised |-> FALSE,
      value |-> IF r.raised THEN FALSE ELSE validate_api_key(r.inst),
      get |-> r]

\* A caller invokes factory.validate_provider_config(name).
ValidateProviderConfig(name) ==
  /\ mode = "idle"
  /\ LET v == validate_provider_config(self_providers, config, env, name, nextId)
     IN /\ v.get.built => nextId <= MaxInst
        /\ FactoryUpdate(name, v.get)
        /\ util' = [op |-> "validate_provider_config", name |-> name,
                    raised |-> v.raised, result |-> v.value]
  /\ UNCHANGED <<config, env, now>>
  /\ UNCHANGED runVars

\* A factory over every kind of key value, asked whether the
\* configuration of a provider is valid while the environment gains keys.
NextValidate ==
  \/ \E name \in Names : ValidateProviderConfig(name)
  \/ \E v \in Vendors : SetEnv(v, "sk-key")

SpecValidate == InitFactory /\ [][NextValidate]_vars

\* A factory over every kind of key value, asked which providers are
\* available between get_provider calls and changes of the environment.
NextQueries ==
  \/ GetAvailableProviders
  \/ \E v \in Vendors : GetProvider(v)
  \/ \E v \in Vendors : SetEnv(v, "sk-key")

SpecQueries == InitFactory /\ [][NextQueries]_vars

\* ========================================================================
\* TokenizerUtils (src/utils/tokenizer.py)
\* ========================================================================
\* Longest text, in words.
MaxWords == 4
\* Largest token limit and context window size handed to the utilities.
MaxLimit == 7

\* The words of the texts: one the tokenizers keep whole, one they cut
\* into three tokens.
Words == {"hi", "tokenization"}

\* A text is the list of words text.split() gives, and whether its words
\* are separated by single spaces and nothing else (so that joining the
\* words with single spaces gives the text back).
Texts == {[words |-> w, single |-> b] :
            w \in UNION {[1..n -> Words] : n \in 0..MaxWords}, b \in BOOLEAN}

\* text.split()
split(text) == text.words

\* ' '.join(words)
join(words) == [words |-> words, single |-> TRUE]

\* words[:k]
Prefix(words, k) == SubSeq(words, 1, k)

\* Token limits and context window sizes; optimize_prompt_length hands
\* truncate_to_tokens `context_window - max_response_tokens - 100`, which
\* is negative for a small window.
Limits == (0 - 1)..MaxLimit

\* What the tokenizer library of a provider does: "none" - it cannot be
\* imported or loaded, and the estimator falls back; "plain" - encode
\* gives the tokens of the words (tiktoken, gpt2); "bos" - encode also
\* gives a begin-of-sequence token (the Llama and Mistral tokenizers that
\* AutoTokenizer loads).
Tokenizers == {"none", "plain", "bos"}

TokenizersOf(provider_name) ==
  CASE Lower(provider_name) \in {"openai", "anthropic"} -> {"none", "plain"}
    [] Lower(provider_name) = "huggingface" -> Tokenizers
    [] OTHER -> {"none"}

\* Tokens the library makes of one word.
TokLen(word) == IF word = "hi" THEN 1 ELSE 3

RECURSIVE SumTokLen(_)
SumTokLen(words) ==
  IF words = <<>> THEN 0 ELSE TokLen(Head(words)) + SumTokLen(Tail(words))

\* len(encoding.encode(text)) / len(tokenizer.encode(text)): the tokens of
\* the words, one more for whitespace other than single spaces, one more
\* for a begin-of-sequence token.
encode_len(text, tk) ==
  SumTokLen(split(text)) + (IF text.single THEN 0 ELSE 1)
                         + (IF tk = "bos" THEN 1 ELSE 0)

\* round(words * 1.3) as Python 3 rounds: to the nearest integer, a half
\* to the even one.
round_words(words) ==
  LET q == (words * 13) \div 10
      r == (words * 13) % 10
  IN IF r > 5 \/ (r = 5 /\ q % 2 = 1) THEN q + 1 ELSE q

\* _basic_token_estimate that rounds to the nearest integer.
basic_token_estimate_rounded(text) == round_words(Len(split(text)))

\* TokenizerUtils._basic_token_estimate: int(len(text.split()) * 1.3);
\* int() drops the fraction.
basic_token_estimate(text) == (Len(split(text)) * 13) \div 10

\* TokenizerUtils.estimate_tokens with _estimate_openai_tokens,
\* _estimate_anthropic_tokens and _estimate_huggingface_tokens: the
\* library's count for the three vendors when the library works, the
\* basic estimate when it does not and for any other provider name.
estimate_tokens(text, provider_name, tk) ==
  IF Lower(provider_name) \in Vendors /\ tk # "none"
    THEN encode_len(text, tk)
  ELSE basic_token_estimate(text)

Max(a, b) == IF a >= b THEN a ELSE b

\* check_context_window that takes a text that fills the window exactly
\* as not fitting.
check_context_window_strict(text, context_window, provider_name, tk) ==
  LET estimated_tokens == estimate_tokens(text, provider_name, tk)
  IN [estimated_tokens |-> estimated_tokens,
      context_window |-> context_window,
      fits_in_window |-> estimated_tokens < context_window,
      utilization_percentage |->
        IF context_window > 0
          THEN [num |-> estimated_tokens * 100, den |-> context_window]
        ELSE [num |-> 0, den |-> 1],
      remaining_tokens |-> Max(0, context_window - estimated_tokens)]

\* TokenizerUtils.check_context_window; utilization_percentage, a float,
\* is kept as the fraction num/den.
check_context_window(text, context_window, provider_name, tk) ==
  LET estimated_tokens == estimate_tokens(text, provider_name, tk)
  IN [estimated_tokens |-> estimated_tokens,
      context_window |-> context_window,
      fits_in_window |-> estimated_tokens <= context_window,
      utilization_percentage |->
        IF context_window > 0
          THEN [num |-> estimated_tokens * 100, den |-> context_window]
        ELSE [num |-> 0, den |-> 1],
      remaining_tokens |-> Max(0, context_window - estimated_tokens)]

\* The search of truncate_to_tokens that keeps a prefix only when its
\* estimate is under the limit.
RECURSIVE truncate_search_strict(_, _, _, _, _, _)
truncate_search_strict(words, left, right, max_tokens, provider_name, tk) ==
  IF left < right
    THEN LET mid == (left + right + 1) \div 2
             truncated == join(Prefix(words, mid))
         IN IF estimate_tokens(truncated, provider_name, tk) < max_tokens
              THEN truncate_search_strict(words, mid, right, max_tokens, provider_name, tk)
            ELSE truncate_search_strict(words, left, mid - 1, max_tokens, provider_name, tk)
  ELSE left

\* The while loop of truncate_to_tokens (tokenizer.py:191-202): a binary
\* search for the number of words to keep; it returns `left`.
RECURSIVE truncate_search(_, _, _, _, _, _)
truncate_search(words, left, right, max_tokens, provider_name, tk) ==
  IF left < right
    THEN LET mid == (left + right + 1) \div 2
             truncated == join(Prefix(words, mid))
         IN IF estimate_tokens(truncated, provider_name, tk) <= max_tokens
              THEN truncate_search(words, mid, right, max_tokens, provider_name, tk)
            ELSE truncate_search(words, left, mid - 1, max_tokens, provider_name, tk)
  ELSE left

\* truncate_to_tokens without the test that returns a fitting text as it
\* is: every text goes through the search.
truncate_to_tokens_always_search(text, max_tokens, provider_name, tk) ==
  LET words == split(text)
  IN join(Prefix(words, truncate_search(words, 0, Len(words), max_tokens,
                                        provider_name, tk)))

\* TokenizerUtils.truncate_to_tokens
truncate_to_tokens(text, max_tokens, provider_name, tk) ==
  IF estimate_tokens(text, provider_name, tk) <= max_tokens
    THEN text
  ELSE LET words == split(text)
       IN join(Prefix(words, truncate_search(words, 0, Len(words), max_tokens,
                                             provider_name, tk)))

\* count_tokens of the three providers, in tenths of a token: the
\* library's count when it works, else len(text.split()) * 1.3, a float
\* that is returned as it is.
count_tokens(vendor, text, tk) ==
  IF tk # "none" THEN Tok(encode_len(text, tk)) ELSE Len(split(text)) * 13

\* The arguments of one call of a TokenizerUtils function, before the call.
TokenInputs ==
  {[op |-> "none", on |-> "tokens", text |-> t, provider |-> p,
    tokenizer |-> tk, limit |-> n, result |-> None] :
     t \in Texts, p \in Names, tk \in Tokenizers, n \in Limits}

\* TokenizerUtils.estimate_tokens(text, provider) is called.
EstimateTokens ==
  /\ util.op = "none" /\ util.on = "tokens"
  /\ util' = [util EXCEPT !.op = "estimate_tokens",
                !.result = estimate_tokens(util.text, util.provider, util.tokenizer)]
  /\ UNCHANGED <<config, env, now>>
  /\ UNCHANGED factoryVars
  /\ UNCHANGED runVars

\* provider.count_tokens(text, model_name) is called on the provider of a
\* supported vendor.
CountTokens ==
  /\ util.op = "none" /\ util.on = "tokens"
  /\ Lower(util.provider) \in Vendors
  /\ util' = [util EXCEPT !.op = "count_tokens",
                !.result = count_tokens(Lower(util.provider), util.text,
                                        util.tokenizer)]
  /\ UNCHANGED <<config, env, now>>
  /\ UNCHANGED factoryVars
  /\ UNCHANGED runVars

\* TokenizerUtils.check_context_window(text, context_window, provider) is
\* called.
CheckContextWindow ==
  /\ util.op = "none" /\ util.on = "tokens"
  /\ util' = [util EXCEPT !.op = "check_context_window",
                !.result = check_context_window(util.text, util.limit,
                                                util.provider, util.tokenizer)]
  /\ UNCHANGED <<config, env, now>>
  /\ UNCHANGED factoryVars
  /\ UNCHANGED runVars

\* TokenizerUtils.truncate_to_tokens(text, max_tokens, provider) is called.
TruncateToTokens ==
  /\ util.op = "none" /\ util.on = "tokens"
  /\ util' = [util EXCEPT !.op = "truncate_to_tokens",
                !.result = truncate_to_tokens(util.text, util.limit,
                                              util.provider, util.tokenizer)]
  /\ UNCHANGED <<config, env, now>>
  /\ UNCHANGED factoryVars
  /\ UNCHANGED runVars

\* ========================================================================
\* Provider tables and request parameters
\* ========================================================================
\* Model names asked about: every name of the three tables and names no
\* table holds (a fine-tuned placeholder of get_available_models, a
\* caller's own model, the empty name).
\* get_available_models of each provider: the model names listed under
\* each model type.
get_available_models(vendor) ==
  CASE vendor = "openai" ->
         ("base" :> <<"gpt-3.5-turbo-instruct", "text-davinci-003">>
          @@ "instruct" :> <<"gpt-3.5-turbo", "gpt-3.5-turbo-16k", "gpt-4",
                         "gpt-4-turbo-preview", "gpt-4-turbo", "gpt-4o",
                         "gpt-4o-mini">>
          @@ "fine-tuned" :> <<"gpt-3.5-turbo-ft", "gpt-4-ft">>)
    [] vendor = "anthropic" ->
         ("base" :> <<>>
          @@ "instruct" :> <<"claude-3-haiku-20240307", "claude-3-sonnet-20240229",
                         "claude-3-opus-20240229", "claude-3-5-sonnet-20240620",
                         "claude-2.1", "claude-2.0", "claude-instant-1.2">>
          @@ "fine-tuned" :> <<>>)
    [] vendor = "huggingface" ->
         ("base" :> <<"meta-llama/Llama-2-7b-hf", "meta-llama/Llama-2-13b-hf",
                     "mistralai/Mistral-7B-v0.1", "microsoft/DialoGPT-large",
                     "EleutherAI/gpt-neo-2.7B">>
          @@ "instruct" :> <<"meta-llama/Llama-2-7b-chat-hf",
                         "meta-llama/Llama-2-13b-chat-hf",
                         "mistralai/Mistral-7B-Instruct-v0.1",
                         "microsoft/DialoGPT-large",
                         "HuggingFaceH4/zephyr-7b-beta",
                         "openchat/openchat-3.5-1210">>
          @@ "fine-tuned" :> <<"codellama/CodeLlama-7b-Python-hf",
                           "codellama/CodeLlama-7b-Instruct-hf",
                           "WizardLM/WizardCoder-15B-V1.0",
                           "Salesforce/codegen-2B-Python",
                           "bigcode/starcoderbase-1b">>)

\* The 'context_window' entries of the `characteristics` dict of
\* get_model_characteristics of each provider.
characteristics(vendor) ==
  CASE vendor = "openai" ->
         ("gpt-3.5-turbo" :> 4096 @@ "gpt-3.5-turbo-16k" :> 16384
          @@ "gpt-4" :> 8192 @@ "gpt-4-turbo" :> 128000
          @@ "gpt-4o" :> 128000 @@ "gpt-4o-mini" :> 128000
          @@ "gpt-3.5-turbo-instruct" :> 4096)
    [] vendor = "anthropic" ->
         ("claude-3-haiku-20240307" :> 200000 @@ "claude-3-sonnet-20240229" :> 200000
          @@ "claude-3-opus-20240229" :> 200000
          @@ "claude-3-5-sonnet-20240620" :> 200000
          @@ "claude-2.1" :> 200000 @@ "claude-2.0" :> 100000
          @@ "claude-instant-1.2" :> 100000)
    [] vendor = "huggingface" ->
         ("meta-llama/Llama-2-7b-hf" :> 4096 @@ "meta-llama/Llama-2-7b-chat-hf" :> 4096
          @@ "meta-llama/Llama-2-13b-chat-hf" :> 4096
          @@ "mistralai/Mistral-7B-v0.1" :> 32768
          @@ "mistralai/Mistral-7B-Instruct-v0.1" :> 32768
          @@ "codellama/CodeLlama-7b-Python-hf" :> 16384
          @@ "codellama/CodeLlama-7b-Instruct-hf" :> 16384
          @@ "HuggingFaceH4/zephyr-7b-beta" :> 32768)

\* get_model_characteristics of each provider, as far as its
\* 'context_window' entry: characteristics.get(model_name, default), the
\* default dict holding 4096 for OpenAI and Hugging Face and 200000 for
\* Anthropic.
get_model_characteristics(vendor, model_name) ==
  [context_window |->
     IF model_name \in DOMAIN characteristics(vendor)
       THEN characteristics(vendor)[model_name]
     ELSE IF vendor = "anthropic" THEN 200000 ELSE 4096]

\* The names a provider lists, under any model type.
Range(seq) == {seq[k] : k \in DOMAIN seq}
ListedModels(vendor) ==
  UNION {Range(get_available_models(vendor)[t]) : t \in DOMAIN get_available_models(vendor)}

ModelNames ==
  UNION {DOMAIN windows(v) : v \in Vendors} \cup {"gpt-4-ft", "my-model", ""}
    \cup UNION {ListedModels(v) : v \in Vendors}

\* The arguments of one get_context_window call, before the call.
WindowInputs ==
  {[op |-> "none", on |-> "window", vendor |-> v, model_name |-> mn,
    result |-> None] : v \in Vendors, mn \in ModelNames}

\* provider.get_context_window(model_name) is called.
GetContextWindow ==
  /\ util.op = "none" /\ util.on = "window"
  /\ util' = [util EXCEPT !.op = "get_context_window",
                !.result = get_context_window(util.vendor, util.model_name)]
  /\ UNCHANGED <<config, env, now>>
  /\ UNCHANGED factoryVars
  /\ UNCHANGED runVars

\* provider.get_model_characteristics(model_name) is called.
GetModelCharacteristics ==
  /\ util.op = "none" /\ util.on = "window"
  /\ util' = [util EXCEPT !.op = "get_model_characteristics",
                !.result = get_model_characteristics(util.vendor, util.model_name)]
  /\ UNCHANGED <<config, env, now>>
  /\ UNCHANGED factoryVars
  /\ UNCHANGED runVars

\* An optional entry of **kwargs or of the provider's config: the empty
\* set when the key is absent, the set of its value when it is there.
\* Temperatures are in tenths.
MaxTokensOptions == {{}, {50}, {500}}
TemperatureOptions == {{}, {0}, {9}}

\* dict.get(key, default)
Get(entry, default) == IF entry = {} THEN default ELSE CHOOSE x \in entry : TRUE

\* The max_tokens (max_new_tokens for Hugging Face) and temperature of the
\* vendor request generate_response builds:
\* kwargs.get(key, self.config.get(key, default)), with the defaults 1000
\* and 0.7 in prepare_request_params (OpenAI) and in AnthropicProvider,
\* and 100 and 0.7 in HuggingFaceProvider.
request_params(vendor, kwargs, cfg) ==
  [max_tokens |-> Get(kwargs.max_tokens,
                      Get(cfg.max_tokens,
                          IF vendor = "huggingface" THEN 100 ELSE 1000)),
   temperature |-> Get(kwargs.temperature, Get(cfg.temperature, 7))]

\* The arguments of one generate_response call and the configuration of
\* its provider, before the request is built.
ParamInputs ==
  {[op |-> "none", on |-> "params", vendor |-> v, kwargs |-> kw, cfg |-> c,
    result |-> None] :
     v \in Vendors,
     kw \in [max_tokens : MaxTokensOptions, temperature : TemperatureOptions],
     c \in [max_tokens : MaxTokensOptions, temperature : TemperatureOptions]}

\* generate_response builds the parameters of its vendor request.
PrepareRequest ==
  /\ util.op = "none" /\ util.on = "params"
  /\ util' = [util EXCEPT !.op = "request_params",
                !.result = request_params(util.vendor, util.kwargs, util.cfg)]
  /\ UNCHANGED <<config, env, now>>
  /\ UNCHANGED factoryVars
  /\ UNCHANGED runVars

\* ------------------------------------------- validate_config (model_config.py)
\* An issue of validate_config: the "Error" or "Warning" its text starts
\* with, and the rest of the text.
Issue(level, text) == [level |-> level, text |-> text]

\* The vendor names validate_config prints.
api_keys(vendor) ==
  CASE vendor = "openai" -> "OpenAI"
    [] vendor = "anthropic" -> "Anthropic"
    [] vendor = "huggingface" -> "Hugging Face"

\* str.upper() on the log levels of the model.
upper(s) == IF s = "info" THEN "INFO" ELSE IF s = "verbose" THEN "VERBOSE" ELSE s

valid_log_levels == {"DEBUG", "INFO", "WARNING", "ERROR"}

\* Entries of a configuration handed to validate_config: absent (the empty
\* set) or a value; temperatures are in tenths.
MaxTokensEntries == {{}, {0 - 1}, {0}, {1}, {1000}}
TemperatureEntries == {{}, {0 - 1}, {0}, {7}, {20}, {21}, {30}}
TimeoutEntries == {{}, {0 - 5}, {0}, {1}, {30}}
LogLevelEntries == {{}, {"info"}, {"verbose"}}

\* The issue list of the API key loop: a warning per vendor without a
\* truthy key, in the order of the api_keys dict, then the error when no
\* vendor has one.
key_issues(keys) ==
  LET warn(v) == IF Truthy(keys[v]) THEN <<>>
                 ELSE <<Issue("Warning", api_keys(v))>>
      has_any_key == \E v \in Vendors : Truthy(keys[v])
  IN warn("openai") \o warn("anthropic") \o warn("huggingface")
       \o (IF has_any_key THEN <<>>
           ELSE <<Issue("Error", "No API keys configured")>>)

\* validate_config that takes the two ends of the temperature range as
\* out of range.
validate_config_open_range(cfg) ==
  key_issues(cfg.keys)
    \o (IF Get(cfg.max_tokens, 0) <= 0
          THEN <<Issue("Error", "max_tokens must be greater than 0")>> ELSE <<>>)
    \o (IF ~(0 < Get(cfg.temperature, 7) /\ Get(cfg.temperature, 7) < 20)
          THEN <<Issue("Error", "temperature must be between 0.0 and 2.0")>> ELSE <<>>)
    \o (IF Get(cfg.timeout, 30) <= 0
          THEN <<Issue("Error", "timeout must be greater than 0")>> ELSE <<>>)
    \o (IF upper(Get(cfg.log_level, "INFO")) \notin valid_log_levels
          THEN <<Issue("Warning", "Invalid log level")>> ELSE <<>>)

\* validate_config (model_config.py:183-227): the list of issues, in the
\* order the function appends them.
validate_config(cfg) ==
  key_issues(cfg.keys)
    \o (IF Get(cfg.max_tokens, 0) <= 0
          THEN <<Issue("Error", "max_tokens must be greater than 0")>> ELSE <<>>)
    \o (IF ~(0 <= Get(cfg.temperature, 7) /\ Get(cfg.temperature, 7) <= 20)
          THEN <<Issue("Error", "temperature must be between 0.0 and 2.0")>> ELSE <<>>)
    \o (IF Get(cfg.timeout, 30) <= 0
          THEN <<Issue("Error", "timeout must be greater than 0")>> ELSE <<>>)
    \o (IF upper(Get(cfg.log_level, "INFO")) \notin valid_log_levels
          THEN <<Issue("Warning", "Invalid log level")>> ELSE <<>>)

\* The configuration of one validate_config call, before the call.
ConfigInputs ==
  {[op |-> "none", on |-> "config", cfg |-> c, result |-> None] :
     c \in [keys : [Vendors -> {None, "sk-key"}],
            max_tokens : MaxTokensEntries,
            temperature : TemperatureEntries,
            timeout : TimeoutEntries,
            log_level : LogLevelEntries]}

\* validate_config(config) is called.
ValidateConfig ==
  /\ util.op = "none" /\ util.on = "config"
  /\ util' = [util EXCEPT !.op = "validate_config",
                !.result = validate_config(util.cfg)]
  /\ UNCHANGED <<config, env, now>>
  /\ UNCHANGED factoryVars
  /\ UNCHANGED runVars

\* One call of a utility function on arguments of every kind.
InitUtils ==
  /\ config = [v \in Vendors |-> None]
  /\ env = [v \in Vendors |-> None]
  /\ InitRun
  /\ util \in {u \in TokenInputs : u.tokenizer \in TokenizersOf(u.provider)}
               \cup WindowInputs \cup ParamInputs \cup ConfigInputs

NextUtils ==
  \/ EstimateTokens
  \/ CheckContextWindow
  \/ TruncateToTokens
  \/ GetContextWindow
  \/ PrepareRequest
  \/ ValidateConfig
  \/ CountTokens
  \/ GetModelCharacteristics

SpecUtils == InitUtils /\ [][NextUtils]_vars

\* ========================================================================
\* Claims C11 - C20
\* ========================================================================
\* C11: get_available_providers returns exactly the supported vendors whose
\* API key is present (a non-empty value) in the configuration or in the
\* environment - a vendor is listed if and only if its key is present -
\* and the call constructs no provider and issues no vendor call.
C11_AvailableIffKey ==
  [][GetAvailableProviders =>
       /\ \A v \in Vendors : InList(v, util'.result) <=> Credentialed(v)
       /\ \A k \in 1..Len(util'.result) : util'.result[k] \in Vendors
       /\ self_providers' = self_providers
       /\ nextId' = nextId
       /\ netCalls' = netCalls]_vars

\* get_available_providers has answered for a factory whose openai key
\* comes from the environment only, whose anthropic key is the empty
\* string and whose huggingface key is blank, with no provider cached.
C11_Witness ==
  /\ util.op = "get_available_providers"
  /\ util.result = <<"openai", "huggingface">>
  /\ config["openai"] = None /\ env["openai"] = "sk-key"
  /\ config["anthropic"] = "" /\ env["anthropic"] = None
  /\ config["huggingface"] = " "
  /\ self_providers["huggingface"] # NoProvider
  /\ self_providers["anthropic"] = NoProvider

\* ------------------------------------------------------------------ C12
\* C12: in single-query mode, when the credentials of the requested vendor
\* are missing, the query ends with the credential-missing error printed
\* (the factory's "API key not found" ValueError, caught by the except of
\* single_model_query), generate_response is never entered, no record is
\* returned and no vendor network call is issued at any point of the run.
C12_MissingCredentials ==
  (mode = "single" /\ ~Credentialed(args.provider)) =>
    /\ netCalls = <<>>
    /\ call = NoCall
    /\ ret = NoRecord
    /\ provider = NoProvider
    /\ pc \in {"get", "done"}
    /\ pc = "done" =>
         /\ outcome = "returned"
         /\ console = <<[kind |-> "single_error", vendor |-> args.provider,
                         model_type |-> args.model_type,
                         text |-> "API key not found"]>>

\* A single query for Hugging Face has ended on a configuration that holds
\* keys for the two other vendors only.
C12_Witness ==
  /\ mode = "single" /\ pc = "done"
  /\ args.provider = "huggingface"
  /\ ~Credentialed("huggingface")
  /\ Credentialed("openai") /\ Credentialed("anthropic")
  /\ lastGet.raised
  /\ Len(console) = 1 /\ console[1].text = "API key not found"
  /\ netCalls = <<>>

\* ------------------------------------------------------------------ C13
\* C13: in every record generate_response returns, the error field is
\* present exactly when the request failed: the record of an answered call
\* carries no error, the record of a call that raised, timed out or came
\* back with a status other than 200 carries one; in compare-all the
\* record just returned is the last of the batch, so this holds of every
\* record of the batch.
C13_ErrorIffFailed ==
  /\ call.status = "returned" =>
       /\ (ret.error # None) <=> (call.reply \in Failures)
       /\ (ret.error = None) <=> (call.reply = "ok")
       /\ mode = "compare" =>
            /\ results # <<>>
            /\ results[Len(results)] = ret
  /\ call.status # "returned" /\ mode = "single" => ret = NoRecord

\* A compare-all run has just got the record of a Hugging Face call that
\* came back with a status other than 200, after an answered OpenAI call.
C13_Witness ==
  /\ mode = "compare"
  /\ call.status = "returned" /\ call.vendor = "huggingface"
  /\ call.reply = "http_error"
  /\ ret.error # None
  /\ \E k \in DOMAIN results :
       results[k].provider = "openai" /\ results[k].error = None

\* ------------------------------------------------------------------ C14
\* C14 as stated: for every text, estimate_tokens is at least 0, and when
\* no tokenizer library is available it equals round(wordCount * 1.3).
C14_RoundedEstimate ==
  util.op = "estimate_tokens" =>
    /\ util.result >= 0
    /\ util.tokenizer = "none" =>
         util.result = round_words(Len(split(util.text)))

\* C14, amended: for every text, estimate_tokens is at least 0, and when
\* no tokenizer library is available it equals wordCount * 1.3 with the
\* fraction dropped (int(), not round()): the largest integer that is at
\* most 1.3 times the number of whitespace-separated words.
C14_TruncatedEstimate ==
  util.op = "estimate_tokens" =>
    /\ util.result >= 0
    /\ util.tokenizer = "none" =>
         /\ util.result * 10 <= Len(split(util.text)) * 13
         /\ Len(split(util.text)) * 13 < (util.result + 1) * 10

\* The fallback estimate of a text of two words: 2, where rounding 2.6
\* gives 3.
C14_Witness ==
  /\ util.op = "estimate_tokens"
  /\ util.tokenizer = "none"
  /\ Len(split(util.text)) = 2
  /\ util.result = 2
  /\ round_words(2) = 3

\* ------------------------------------------------------------------ C15
\* C15: for every text and every context window size, 0 included,
\* check_context_window reports the estimator's count as estimated_tokens,
\* fits_in_window exactly when estimated_tokens <= context_window, and
\* remaining_tokens equal to max(0, context_window - estimated_tokens).
C15_ContextWindowReport ==
  util.op = "check_context_window" =>
    LET r == util.result
        est == estimate_tokens(util.text, util.provider, util.tokenizer)
        cw == util.limit
    IN /\ r.estimated_tokens = est
       /\ r.context_window = cw
       /\ r.fits_in_window \in BOOLEAN
       /\ r.fits_in_window <=> (est <= cw)
       /\ r.remaining_tokens >= 0
       /\ r.remaining_tokens = (IF est <= cw THEN cw - est ELSE 0)

\* check_context_window has been asked about the empty text and a window
\* of 0 tokens: it fits, with nothing remaining.
C15_Witness ==
  /\ util.op = "check_context_window"
  /\ util.limit = 0
  /\ split(util.text) = <<>>
  /\ util.result.estimated_tokens = 0
  /\ util.result.fits_in_window
  /\ util.result.remaining_tokens = 0

\* ------------------------------------------------------------------ C16
\* Whether a text is made of the first words of another, joined by single
\* spaces.
IsWordPrefix(r, text) ==
  /\ r.single
  /\ \E k \in 0..Len(split(text)) : split(r) = Prefix(split(text), k)

\* The estimate of a text under the provider and tokenizer of the call.
Estimate(text) == estimate_tokens(text, util.provider, util.tokenizer)

\* The empty text, as ' '.join([]) gives it.
EmptyText == join(<<>>)

\* C16 as stated: for every text T and token limit N, truncate_to_tokens
\* returns T unchanged when estimate(T) <= N, and otherwise a prefix of
\* T's words whose estimate does not exceed N.
C16_NeverOverLimit ==
  util.op = "truncate_to_tokens" =>
    IF Estimate(util.text) <= util.limit
      THEN util.result = util.text
    ELSE /\ IsWordPrefix(util.result, util.text)
         /\ Estimate(util.result) <= util.limit

\* C16, amended: truncate_to_tokens returns T unchanged when
\* estimate(T) <= N; otherwise it returns a prefix of T's words, joined by
\* single spaces, whose estimate does not exceed N whenever the estimate
\* of the empty text does not exceed N, and the empty text when even that
\* exceeds N (a negative N, or N = 0 under a tokenizer that counts a
\* begin-of-sequence token).
C16_OverLimitOnlyWhenNothingFits ==
  util.op = "truncate_to_tokens" =>
    IF Estimate(util.text) <= util.limit
      THEN util.result = util.text
    ELSE /\ IsWordPrefix(util.result, util.text)
         /\ Estimate(EmptyText) <= util.limit => Estimate(util.result) <= util.limit
         /\ Estimate(EmptyText) > util.limit => util.result = EmptyText

\* truncate_to_tokens has cut a text down to some, not all, of its words.
C16_Witness ==
  /\ util.op = "truncate_to_tokens"
  /\ Estimate(util.text) > util.limit
  /\ Len(split(util.result)) > 0
  /\ Len(split(util.result)) < Len(split(util.text))
  /\ Estimate(util.result) <= util.limit

\* ------------------------------------------------------------------ C17
\* The text made of the first k words of the text of the call.
WordPrefix(k) == join(Prefix(split(util.text), k))

\* The word counts whose prefix fits the limit of the call.
Fitting == {m \in 0..Len(split(util.text)) : Estimate(WordPrefix(m)) <= util.limit}

\* truncate_to_tokens was called and did truncate.
Truncated == util.op = "truncate_to_tokens" /\ Estimate(util.text) > util.limit

\* C17 as stated: when truncate_to_tokens truncates, its result is the
\* first k whole words of the text, where k is the largest word count
\* whose prefix has an estimate <= the limit: that prefix fits and no
\* longer one does.
C17_LargestFittingPrefix ==
  Truncated =>
    LET k == Len(split(util.result))
    IN /\ util.result = WordPrefix(k)
       /\ k \in Fitting
       /\ \A m \in Fitting : m <= k

\* C17, amended: when truncate_to_tokens truncates, its result is the
\* first k whole words of the text, and no longer word prefix fits the
\* limit; k is the largest word count whose prefix has an estimate <= the
\* limit when there is one, and 0 - the empty text - when not even the
\* empty prefix fits the limit.
C17_LargestFittingPrefixIfAny ==
  Truncated =>
    LET k == Len(split(util.result))
    IN /\ util.result = WordPrefix(k)
       /\ \A m \in Fitting : m <= k
       /\ Fitting # {} => k \in Fitting
       /\ Fitting = {} => k = 0

\* truncate_to_tokens has kept the words that fill the limit exactly,
\* where one more word would exceed it.
C17_Witness ==
  /\ Truncated
  /\ Len(split(util.result)) \in 1..(Len(split(util.text)) - 1)
  /\ Estimate(util.result) = util.limit
  /\ Estimate(WordPrefix(Len(split(util.result)) + 1)) > util.limit

\* ------------------------------------------------------------------ C18
\* The table entry of a model name for a provider, if there is one.
Known(vendor, model_name) == model_name \in DOMAIN windows(vendor)

\* C18 as stated: for every provider, get_context_window returns the table
\* value for a model name of its table and 4096 for any other name.
C18_Default4096 ==
  util.op = "get_context_window" =>
    util.result = IF Known(util.vendor, util.model_name)
                    THEN windows(util.vendor)[util.model_name]
                  ELSE 4096

\* C18, amended: for every provider, get_context_window returns the table
\* value for a model name of its table; for any other name the OpenAI and
\* Hugging Face providers return 4096 and the Anthropic provider returns
\* 200000.
C18_DefaultPerProvider ==
  util.op = "get_context_window" =>
    /\ Known(util.vendor, util.model_name) =>
         util.result = windows(util.vendor)[util.model_name]
    /\ (~Known(util.vendor, util.model_name) /\ util.vendor # "anthropic") =>
         util.result = 4096
    /\ (~Known(util.vendor, util.model_name) /\ util.vendor = "anthropic") =>
         util.result = 200000

\* The Anthropic provider has been asked for the window of a name it does
\* not list.
C18_Witness ==
  /\ util.op = "get_context_window"
  /\ util.vendor = "anthropic"
  /\ util.model_name = "my-model"
  /\ util.result = 200000

\* ------------------------------------------------------------------ C19
\* A token count, kept in tenths of a token, is a whole number of tokens.
IsInteger(tenths) == tenths % 10 = 0

\* The records a run holds: the one generate_response returned last and
\* those of the batch.
Records == {ret} \cup {results[k] : k \in DOMAIN results}

\* C19: in every record, the three token_usage fields are non-negative
\* integers and total_tokens = input_tokens + output_tokens, also when the
\* counts are estimated because the vendor reports no usage and no
\* tokenizer library is available.
C19_IntegerUsage ==
  \A r \in Records :
    /\ r.token_usage.input_tokens >= 0
    /\ r.token_usage.output_tokens >= 0
    /\ r.token_usage.total_tokens >= 0
    /\ IsInteger(r.token_usage.input_tokens)
    /\ IsInteger(r.token_usage.output_tokens)
    /\ IsInteger(r.token_usage.total_tokens)
    /\ r.token_usage.total_tokens =
         r.token_usage.input_tokens + r.token_usage.output_tokens

\* ------------------------------------------------------------------ C20
\* C20: for every provider, the max_tokens and the temperature sent in the
\* vendor request are the per-call option when one is given, else the
\* configuration value when one is present, else the defaults 1000 and
\* 0.7 (7 tenths).
C20_RequestParameters ==
  util.op = "request_params" =>
    /\ util.result.max_tokens =
         (IF util.kwargs.max_tokens # {}
            THEN CHOOSE x \in util.kwargs.max_tokens : TRUE
          ELSE IF util.cfg.max_tokens # {}
            THEN CHOOSE x \in util.cfg.max_tokens : TRUE
          ELSE 1000)
    /\ util.result.temperature =
         (IF util.kwargs.temperature # {}
            THEN CHOOSE x \in util.kwargs.temperature : TRUE
          ELSE IF util.cfg.temperature # {}
            THEN CHOOSE x \in util.cfg.temperature : TRUE
          ELSE 7)

\* ========================================================================
\* InteractiveMode.comparison_mode (src/cli/interactive.py)
\* ========================================================================
\* The inner except Exception of comparison_mode (interactive.py:236-237):
\* a warning, and the loop goes on.
interactive_except_inner(e) ==
  /\ console' = Append(console, [kind |-> "query_failed", vendor |-> providers[i],
                                 model_type |-> model_types[j], text |-> e])
  /\ Goto(AfterType(i, j))

\* The except Exception around the whole of comparison_mode
\* (interactive.py:268-269), the only handler around get_provider: the
\* error is printed and the method returns, past the display of results.
interactive_except_outer(e) ==
  /\ console' = Append(console, [kind |-> "comparison_error", vendor |-> providers[i],
                                 model_type |-> None, text |-> e])
  /\ i' = i
  /\ j' = j
  /\ pc' = "done"
  /\ outcome' = "returned"

\* The user starts a comparison with every provider and every model type
\* selected (the default answers); comparison_mode builds its own factory
\* over the configuration.
InteractiveStart ==
  /\ mode = "idle"
  /\ mode' = "interactive"
  /\ args' = NoArgs
  /\ i' = 1
  /\ j' = 1
  /\ pc' = "get"
  /\ ResetRun
  /\ UNCHANGED <<config, env, now>>
  /\ UNCHANGED factoryVars
  /\ UNCHANGED util

\* provider_instance = provider_factory.get_provider(provider_name)
InteractiveGetProvider ==
  /\ mode = "interactive" /\ pc = "get"
  /\ LET r == get_provider(self_providers, config, env, providers[i], nextId)
     IN /\ FactoryUpdate(providers[i], r)
        /\ IF r.raised
             THEN /\ interactive_except_outer(GetProviderError(providers[i]))
                  /\ UNCHANGED provider
           ELSE /\ provider' = r.inst
                /\ pc' = "query"
                /\ j' = 1
                /\ UNCHANGED <<console, outcome, i>>
  /\ UNCHANGED <<config, env, now, mode, args, call, ret, results, netCalls>>
  /\ UNCHANGED util

\* response = await provider_instance.generate_response(query=query,
\* model_type=model_type), up to the await, in the inner try.
InteractiveQuery ==
  /\ mode = "interactive" /\ pc = "query"
  /\ LET g == generate_begin(provider, model_types[j], None)
     IN IF g.raised
          THEN /\ call' = RaisedCall(provider, model_types[j], None)
               /\ interactive_except_inner(g.error)
               /\ UNCHANGED netCalls
               /\ provider' = instance_after_call(provider, "raised")
        ELSE /\ call' = IssuedCall(provider, model_types[j], None, g.model, now)
             /\ netCalls' = Append(netCalls, Request(call'))
             /\ pc' = "await"
             /\ UNCHANGED provider
             /\ UNCHANGED <<console, outcome, i, j>>
  /\ UNCHANGED <<config, env, now, mode, args, ret, results>>
  /\ UNCHANGED factoryVars
  /\ UNCHANGED util

\* The vendor call ends; the record is appended to results.
InteractiveAwait(reply) ==
  /\ mode = "interactive" /\ pc = "await"
  /\ reply \in Replies(call.vendor)
  /\ call' = [call EXCEPT !.status = "returned", !.finish = now, !.reply = reply]
  /\ ret' = generate_end(call, reply, now)
  /\ provider' = instance_after_call(provider, reply)
  /\ results' = append_result(results, ret')
  /\ netCalls' = calls_after_reply(netCalls, call, reply)
  /\ Goto(AfterType(i, j))
  /\ UNCHANGED <<config, env, now, mode, args, console>>
  /\ UNCHANGED factoryVars
  /\ UNCHANGED util

\* A fresh factory and configuration handed either to the coroutines of
\* main.py or to the interactive comparison.
NextInteractive ==
  \/ Next
  \/ InteractiveStart
  \/ InteractiveGetProvider
  \/ InteractiveQuery
  \/ \E reply \in Replies("huggingface") : InteractiveAwait(reply)

SpecInteractive == Init /\ [][NextInteractive]_vars

\* ========================================================================
\* Claims C21 - C30
\* ========================================================================
\* ------------------------------------------------------------------ C21
\* The pairs of the iteration, up to and including (a, b), that reach a
\* vendor call: their vendor has credentials and a default model for the
\* model type.
DefaultPairsUpTo ==
  [a \in DOMAIN providers, b \in DOMAIN model_types |->
     {pr \in (DOMAIN providers) \X (DOMAIN model_types) :
        /\ pr[1] < a \/ (pr[1] = a /\ pr[2] <= b)
        /\ HasDefault(providers[pr[1]], model_types[pr[2]])}]

AttemptedUpTo(a, b) ==
  {pr \in DefaultPairsUpTo[a, b] : Credentialed(providers[pr[1]])}

\* C21: in compare_all_models a vendor-call failure for one pair does not
\* abort the batch: the failed pair's record, with its error, is in the
\* batch at that pair's position, and every later pair of the iteration is
\* still attempted - once the loop is past a later pair that reaches a
\* vendor call, that pair's request was issued and its one record is in
\* the batch - so the finished batch holds one record per attempted pair,
\* before and after the failure.
C21_FailureDoesNotAbort ==
  mode = "compare" =>
    /\ \A k \in DOMAIN results :
         results[k].error # None =>
           k = Cardinality(AttemptedUpTo(VendorIndex(results[k].provider),
                                         TypeIndex(results[k].model_type)))
    /\ (\E k \in DOMAIN results : results[k].error # None) =>
         /\ outcome # "raised"
         /\ \A pr \in AttemptedUpTo(Len(providers), Len(model_types)) :
              Past(pr[1], pr[2]) =>
                /\ Cardinality(RecordsFor(providers[pr[1]], model_types[pr[2]])) = 1
                /\ \E n \in DOMAIN netCalls :
                     /\ netCalls[n].vendor = providers[pr[1]]
                     /\ netCalls[n].model_type = model_types[pr[2]]
         /\ pc = "done" =>
              Len(results) =
                Cardinality(AttemptedUpTo(Len(providers), Len(model_types)))

\* A finished batch over fully credentialed vendors whose very first call
\* failed and whose last call was answered.
C21_Witness ==
  /\ CompareDone
  /\ \A v \in Vendors : Credentialed(v)
  /\ Len(results) = 7
  /\ results[1].error # None
  /\ results[1].provider = "openai" /\ results[1].model_type = "base"
  /\ results[7].error = None
  /\ results[7].provider = "huggingface"

\* ------------------------------------------------------------------ C22
\* C22: validate_provider_config(name) returns False, and never raises,
\* whenever the vendor's API key is missing from both the configuration
\* and the environment or the name is not one of a supported vendor.
C22_ValidateFalseNeverRaises ==
  [][\A name \in Names :
       ValidateProviderConfig(name) =>
         /\ ~util'.raised
         /\ util'.result \in BOOLEAN
         /\ (Lower(name) \notin Vendors
               \/ (config[Lower(name)] = None /\ env[Lower(name)] = None)) =>
              util'.result = FALSE]_vars

\* validate_provider_config has answered False for an unsupported name,
\* on a factory that has a provider cached and no key at all for another
\* vendor.
C22_Witness ==
  /\ util.op = "validate_provider_config"
  /\ util.name = "cohere"
  /\ util.result = FALSE /\ ~util.raised
  /\ self_providers["openai"] # NoProvider
  /\ config["anthropic"] = None /\ env["anthropic"] = None
  /\ "anthropic" \in failedGets

\* ------------------------------------------------------------------ C23
\* Whether the issue list of the call holds an issue with a text.
Lists(text) == \E k \in DOMAIN util.result : util.result[k].text = text

\* The value of an entry that is present.
Value(entry) == CHOOSE x \in entry : TRUE

\* C23: validate_config reports a parameter error exactly for out-of-range
\* values: for a configuration that holds the parameter, it lists
\* 'max_tokens must be greater than 0' iff max_tokens <= 0, 'temperature
\* must be between 0.0 and 2.0' iff temperature is outside [0.0, 2.0] and
\* 'timeout must be greater than 0' iff timeout <= 0; a configuration
\* whose three parameters are in range yields no 'Error:' issue other than
\* the one about API keys.
C23_ParameterErrors ==
  util.op = "validate_config" =>
    LET c == util.cfg
    IN /\ c.max_tokens # {} =>
            (Lists("max_tokens must be greater than 0") <=> Value(c.max_tokens) <= 0)
       /\ c.temperature # {} =>
            (Lists("temperature must be between 0.0 and 2.0")
               <=> (Value(c.temperature) < 0 \/ Value(c.temperature) > 20))
       /\ c.timeout # {} =>
            (Lists("timeout must be greater than 0") <=> Value(c.timeout) <= 0)
       /\ ( /\ c.max_tokens # {} /\ Value(c.max_tokens) > 0
            /\ c.temperature # {} /\ Value(c.temperature) \in 0..20
            /\ c.timeout # {} /\ Value(c.timeout) > 0 ) =>
            \A k \in DOMAIN util.result :
              util.result[k].level = "Error" =>
                util.result[k].text = "No API keys configured"

\* validate_config has been given max_tokens 0, the temperature 2.0 and
\* the timeout 1, and no API key: it lists the max_tokens error and the
\* API key error, and neither of the two others.
C23_Witness ==
  /\ util.op = "validate_config"
  /\ util.cfg.max_tokens = {0}
  /\ util.cfg.temperature = {20}
  /\ util.cfg.timeout = {1}
  /\ \A v \in Vendors : util.cfg.keys[v] = None
  /\ Lists("max_tokens must be greater than 0")
  /\ Lists("No API keys configured")
  /\ ~Lists("temperature must be between 0.0 and 2.0")
  /\ ~Lists("timeout must be greater than 0")

\* ------------------------------------------------------------------ C24
\* The vendor calls issued for a vendor and a model type.
CallsFor(v, t) ==
  {k \in DOMAIN netCalls : netCalls[k].vendor = v /\ netCalls[k].model_type = t}

\* C24: each generate_response call issues at most one vendor network
\* call: a run has one request per invocation that reached its vendor call
\* (at most one in single-query mode, one per record plus the one in
\* flight in compare-all, never two for a pair), and after a failure or a
\* timeout of that call there is no retry: the invocation has ended, with
\* a record that carries the error.
C24_SingleAttempt ==
  /\ \A v \in Vendors : \A t \in ModelTypes : Cardinality(CallsFor(v, t)) <= 1
  /\ mode = "single" =>
       Len(netCalls) = IF call.status \in {"inflight", "returned"} THEN 1 ELSE 0
  /\ mode = "compare" =>
       Len(netCalls) = Len(results) + IF call.status = "inflight" THEN 1 ELSE 0
  /\ (call.status = "returned" /\ call.reply \in Failures) =>
       /\ ret.error # None
       /\ ret.token_usage = ZeroUsage
       /\ Cardinality(CallsFor(call.vendor, call.model_type)) = 1
       /\ netCalls[Len(netCalls)] = Request(call)

\* A single query whose one vendor call timed out: it has ended with a
\* failed record and that one request.
C24_Witness ==
  /\ mode = "single" /\ pc = "done"
  /\ call.status = "returned" /\ call.reply = "timeout"
  /\ Len(netCalls) = 1
  /\ ret.error # None
  /\ now = MaxClock

\* ------------------------------------------------------------------ C25
\* The vendor calls issued and not yet answered by a record of the batch.
InFlight == Len(netCalls) - Len(results)

\* C25: compare_all_models dispatches strictly sequentially: at most one
\* vendor call is in flight at any time, exactly when the coroutine is at
\* its await; when the call of a pair is in flight, every call issued
\* before has returned and its record is in the batch, and every earlier
\* pair of a vendor with credentials has its record or its warning; the
\* k-th record answers the k-th request, so completion order and request
\* order coincide.
C25_Sequential ==
  mode = "compare" =>
    /\ InFlight \in {0, 1}
    /\ InFlight = 1 <=> pc = "await"
    /\ pc = "await" <=> call.status = "inflight"
    /\ \A k \in DOMAIN results :
         /\ k <= Len(netCalls)
         /\ results[k].provider = netCalls[k].vendor
         /\ results[k].model_type = netCalls[k].model_type
         /\ results[k].model_name = netCalls[k].model
    /\ pc = "await" =>
         /\ netCalls[Len(netCalls)] = Request(call)
         /\ call.vendor = providers[i] /\ call.model_type = model_types[j]
         /\ \A a \in DOMAIN providers : \A b \in DOMAIN model_types :
              (Credentialed(providers[a]) /\ (a < i \/ (a = i /\ b < j))) =>
                Cardinality(RecordsFor(providers[a], model_types[b]))
                  + Cardinality(Messages("query_failed", providers[a], model_types[b])) = 1

\* The Anthropic 'instruct' call is in flight after three OpenAI records
\* and the warning about Anthropic 'base'.
C25_Witness ==
  /\ mode = "compare" /\ pc = "await"
  /\ call.vendor = "anthropic" /\ call.model_type = "instruct"
  /\ Len(netCalls) = 4 /\ Len(results) = 3
  /\ Messages("query_failed", "anthropic", "base") # {}
  /\ \E k \in DOMAIN results : results[k].error # None

\* ------------------------------------------------------------------ C26
\* A step of a generate_response call: up to its vendor call or its
\* ValueError, or from the vendor's reply to the returned record.
GenerateResponseStep ==
  \/ SingleGenerate
  \/ CompareQuery
  \/ \E reply \in Replies("huggingface") : SingleAwait(reply)
  \/ \E reply \in Replies("huggingface") : CompareAwait(reply)

\* C26: a generate_response call leaves the provider instance, the shared
\* configuration (and the environment) and the factory's provider cache
\* unchanged - the cache still holds the very instance the caller holds -
\* whether the call succeeds, fails at the vendor or fails for lack of a
\* model; only the returned record is new.
C26_GenerateFrame ==
  [][GenerateResponseStep =>
       /\ provider' = provider
       /\ config' = config
       /\ env' = env
       /\ self_providers' = self_providers
       /\ nextId' = nextId
       /\ self_providers'[provider.vendor] = provider']_vars

\* A compare-all run that has met a call failing for lack of a model, a
\* call failing at the vendor and an answered call, with the three
\* providers still cached as they were constructed.
C26_Witness ==
  /\ CompareDone
  /\ \A v \in Vendors : Credentialed(v)
  /\ Messages("query_failed", "anthropic", "base") # {}
  /\ \E k \in DOMAIN results : results[k].error # None
  /\ \E k \in DOMAIN results : results[k].error = None
  /\ \A v \in Vendors :
       self_providers[v] = NewProvider(config, env, v, VendorIndex(v))
  /\ provider = self_providers["huggingface"]

\* ------------------------------------------------------------------ C27
\* C27: the fallback estimate is uniform across estimators: when no
\* tokenizer library is available, for every text and every vendor, the
\* vendor provider's count_tokens returns the value
\* TokenizerUtils.estimate_tokens returns for that text and vendor, and
\* that value is round(wordCount * 1.3) (token counts in tenths).
C27_UniformFallback ==
  (util.op = "count_tokens" /\ util.tokenizer = "none") =>
    /\ util.result = Tok(estimate_tokens(util.text, util.provider, util.tokenizer))
    /\ util.result = Tok(round_words(Len(split(util.text))))

\* ------------------------------------------------------------------ C28
\* The pairs of the records of the batch, in order.
PairsOf(batch) == [k \in DOMAIN batch |-> <<batch[k].provider, batch[k].model_type>>]

\* The pairs that reach a vendor call, in iteration order: those of the
\* vendors with credentials that have a default model for the model type.
RECURSIVE ExpectedPairsFrom(_, _)
ExpectedPairsFrom(a, b) ==
  IF a > Len(providers) THEN <<>>
  ELSE LET rest == IF b < Len(model_types) THEN ExpectedPairsFrom(a, b + 1)
                   ELSE ExpectedPairsFrom(a + 1, 1)
       IN IF Credentialed(providers[a]) /\ HasDefault(providers[a], model_types[b])
            THEN <<(<<providers[a], model_types[b]>>)>> \o rest
          ELSE rest

InteractiveDone == mode = "interactive" /\ pc = "done"

\* C28: interactive comparison_mode and the CLI compare_all_models are the
\* same orchestration: for the same query, the same selected vendors and
\* model types and the same credential state, the finished batch of either
\* holds the records of the same pairs in the same order - those of the
\* vendors with credentials - and a selected vendor whose provider cannot
\* be constructed is skipped with a warning about it, the remaining
\* vendors being still queried.
C28_SameOrchestration ==
  (CompareDone \/ InteractiveDone) =>
    /\ PairsOf(results) = ExpectedPairsFrom(1, 1)
    /\ \A v \in Vendors :
         ~Credentialed(v) => \E k \in DOMAIN console : console[k].vendor = v
    /\ i = Len(providers)

\* ------------------------------------------------------------------ C29
\* C29: for every provider and every model name listed by its
\* get_available_models, the context_window entry of
\* get_model_characteristics(model) equals get_context_window(model), the
\* other context-window value a successful record of the model carries.
C29_ContextWindowsAgree ==
  (util.op = "get_model_characteristics"
     /\ util.model_name \in ListedModels(util.vendor))
    => util.result.context_window = get_context_window(util.vendor, util.model_name)

\* ------------------------------------------------------------------ C30
\* C30: the factory's three credential checks agree: for every supported
\* vendor and every API key value (absent, empty, whitespace-only,
\* non-blank), whenever validate_provider_config(vendor) is called, the
\* vendor is in get_available_providers() if and only if the get_provider
\* call for it succeeds, and if and only if validate_provider_config
\* returns True.
C30_CredentialChecksAgree ==
  [][\A v \in Vendors :
       ValidateProviderConfig(v) =>
         /\ InList(v, get_available_providers(config, env)) <=> ~lastGet'.raised
         /\ ~lastGet'.raised <=> (util'.result = TRUE)]_vars

====
